---- MODULE Spec2Model ----
(***************************************************************************)
(* State-machine model of the orchestration pipeline of PES-Sandbox:       *)
(*   aml.py  process_rdkit_reaction      (Graph Builder)                   *)
(*   sql.py  enumerated_graph_into_database, log_energies                  *)
(*           (Store Reconciler, Result Harvester)                          *)
(*   orc.py  parse_log_file                                                *)
(*   hyq.py  submit_tasks_orca, wait_for_server   (Job Orchestrator)       *)
(*                                                                         *)
(* Python's None is the empty tuple <<>>; a present optional value v is    *)
(* the one-element tuple <<v>>.                                            *)
(***************************************************************************)
EXTENDS Integers, Sequences, FiniteSets, TLC

VARIABLES
    stationary,     \* connection's view of table stationary: Seq of rows
    transition,     \* connection's view of table transition: Seq of rows
    energies,       \* connection's view of table energies: Seq of rows
    durable,        \* the committed content of the three tables
    files,          \* data root: identifier -> content of <identifier>/guess.xyz
    logs,           \* data root: identifier -> [calc, freq] log files
    ret,            \* the last pass: [op, graph, repeat, outcome, to_submit]
    runs,           \* concurrent reconciliation runs: run -> its position and locals
    lock,           \* the store's write lock: the run holding it, or <<>>
    hq,             \* one run of submit_tasks_orca and the scheduler behind it
    built           \* the builder call at hand: its inputs, and what _build_scan returned

vars == <<stationary, transition, energies, durable, files, logs, ret, runs,
          lock, hq, built>>

None == <<>>

Some(v) == <<v>>

Range(s) == {s[i] : i \in 1..Len(s)}

(***************************************************************************)
(* The chemistry collaborators (automol, rdkit), at their boundary.        *)
(***************************************************************************)
\* Structural inputs.  m1 and m1e are the two enantiomers of one species.
Mols == {"m1", "m1e", "m2", "m3"}

\* rdk.mol_to_smiles: the SMILES text of an input molecule.
mol_to_smiles(mol) == "smi:" \o mol

\* aml.canonical_enantiomer: the canonical identifier of a molecule; both
\* enantiomers get the identifier of the canonical one.
canonical_enantiomer(mol) ==
    CASE mol = "m1"  -> "a1"
      [] mol = "m1e" -> "a1"
      [] mol = "m2"  -> "a2"
      [] mol = "m3"  -> "a3"

\* automol.geom.xyz_string(automol.graph.geometry(graph)) of a species.
xyz_string(amchi) == "xyz:" \o amchi

\* The transition structures the reaction collaborator can generate: the
\* reactant identifiers, the product identifiers and the identifiers of the
\* transition structures found for that pairing (several, or none).
Reactions ==
    { [r |-> {"a1"},       p |-> {"a2", "a3"}, ts |-> <<"t1">>],
      [r |-> {"a2", "a3"}, p |-> {"a1"},       ts |-> <<"t2", "t4">>],
      [r |-> {"a3"},       p |-> {"a2"},       ts |-> <<"t3">>],
      [r |-> {"a1", "a2"}, p |-> {"a3"},       ts |-> <<"t5">>] }

\* aml.reaction_graphs: the transition structures of a pairing, none when the
\* collaborator finds no reaction.
reaction_graphs(reactant_amchis, product_amchis) ==
    LET hits == {x \in Reactions : /\ x.r = Range(reactant_amchis)
                                   /\ x.p = Range(product_amchis)}
    IN  IF hits = {} THEN <<>> ELSE (CHOOSE x \in hits : TRUE).ts

(***************************************************************************)
(* Graph Builder: aml.process_rdkit_reaction.  A WorkGraph is a networkx   *)
(* DiGraph: its nodes in insertion order, each with its attribute          *)
(* dictionary, and its set of directed edges.                              *)
(***************************************************************************)
NodeAttrs == {"amchi", "role", "smiles", "xyz", "scan", "active_atoms",
              "reactants", "products"}

\* A node that carries no attribute yet (dict.get gives None for each).
BlankNode(amchi) ==
    [amchi |-> amchi, role |-> "", smiles |-> None, xyz |-> "", scan |-> None,
     active_atoms |-> None, reactants |-> None, products |-> None]

EmptyGraph == [nodes |-> <<>>, edges |-> {}, raised |-> ""]

HasNode(G, amchi) == \E i \in 1..Len(G.nodes) : G.nodes[i].amchi = amchi

\* networkx add_node(key, **attrs): a new key is appended; an existing key
\* keeps its place and has the given attributes overwritten.
add_node(G, amchi, attrs) ==
    LET upd(old) == [f \in NodeAttrs |->
                        IF f \in DOMAIN attrs THEN attrs[f] ELSE old[f]]
    IN  IF HasNode(G, amchi)
        THEN [G EXCEPT !.nodes = [i \in 1..Len(G.nodes) |->
                  IF G.nodes[i].amchi = amchi THEN upd(G.nodes[i])
                  ELSE G.nodes[i]]]
        ELSE [G EXCEPT !.nodes = Append(G.nodes, upd(BlankNode(amchi)))]

add_edge(G, u, v) == [G EXCEPT !.edges = G.edges \cup {<<u, v>>}]

\* _add_stationary: one node per molecule, in order; returns the graph and
\* the list of identifiers.
RECURSIVE _add_stationary(_, _, _)
_add_stationary(G, molecules, role) ==
    IF molecules = <<>> THEN [graph |-> G, amchis |-> <<>>]
    ELSE LET molecule == Head(molecules)
             amchi    == canonical_enantiomer(molecule)
             G1       == add_node(G, amchi,
                             [smiles |-> Some(mol_to_smiles(molecule)),
                              xyz    |-> xyz_string(amchi),
                              role   |-> role])
             rest     == _add_stationary(G1, Tail(molecules), role)
         IN  [graph |-> rest.graph, amchis |-> <<amchi>> \o rest.amchis]

\* The atoms of a transition structure.  A bond key is a frozenset of two
\* atoms; it is kept as the pair <<first, second>> in the order Python
\* iterates it, which for atom numbers below 8 is the ascending one.
Atoms == {0, 1, 2, 3}

BondKeys == {<<x, y>> \in Atoms \X Atoms : x < y}

\* automol.geom.distance_matrix(geom)[x, y], in bohr / 1000.
distance_matrix(x, y) ==
    LET lo == IF x < y THEN x ELSE y
        hi == IF x < y THEN y ELSE x
    IN  1000 + 350 * (hi - lo) + 10 * (hi + lo)

\* Line 52: bohr to angstrom, 0.529177, in units of 1e-6.
BohrToAngstrom == 529177

\* dmat_angstrom[x, y], in angstrom / 1000 as {dist:.3f} prints it.
dmat_angstrom(x, y) ==
    (distance_matrix(x, y) * BohrToAngstrom + 500000) \div 1000000

\* A Python str is the tuple of its characters.
RECURSIVE DecimalChars(_)
DecimalChars(n) ==
    IF n < 10 THEN <<ToString(n)>>
    ELSE DecimalChars(n \div 10) \o <<ToString(n % 10)>>

\* f"{dist:.3f}"
Fixed3(milli) ==
    DecimalChars(milli \div 1000)
    \o <<".", ToString((milli \div 100) % 10), ToString((milli \div 10) % 10),
         ToString(milli % 10)>>

\* Lines 62 and 66: f"{x} {y}"
ActiveAtomsText(x, y) == DecimalChars(x) \o <<" ">> \o DecimalChars(y)

\* Line 63: f"scan B {active_atoms} = {dist:.3f}, 0.7, 100"
FormedScanText(active_atoms, dist) ==
    <<"s", "c", "a", "n", " ", "B", " ">> \o active_atoms \o <<" ", "=", " ">>
    \o Fixed3(dist) \o <<",", " ", "0", ".", "7", ",", " ", "1", "0", "0">>

\* Line 67: f"scan B {active_atoms} = {dmat_angstrom[a, b]:.3f}, 2.0, 100"
BrokenScanText(active_atoms, dist) ==
    <<"s", "c", "a", "n", " ", "B", " ">> \o active_atoms \o <<" ", "=", " ">>
    \o Fixed3(dist) \o <<",", " ", "2", ".", "0", ",", " ", "1", "0", "0">>

\* Lines 57-63: the loop over the forming bonds for one breaking bond; v is
\* the pair of names scan, active_atoms, each None while it is unbound.
RECURSIVE FormedLoop(_, _, _)
FormedLoop(v, broken_bond, formed) ==
    IF formed = <<>> THEN v
    ELSE LET formed_bond == Head(formed)
             shared == Range(broken_bond) \cap Range(formed_bond)
             b      == broken_bond[2]
             c      == CHOOSE x \in Range(formed_bond) \ shared : TRUE
             v1     == IF Cardinality(shared) = 1
                       THEN [scan |-> Some(FormedScanText(ActiveAtomsText(b, c),
                                                          dmat_angstrom(b, c))),
                             active_atoms |-> Some(ActiveAtomsText(b, c))]
                       ELSE v
         IN  FormedLoop(v1, broken_bond, Tail(formed))

\* Lines 54-67: the loop over the breaking bonds.
RECURSIVE BrokenLoop(_, _, _)
BrokenLoop(v, broken, formed) ==
    IF broken = <<>> THEN v
    ELSE LET a  == Head(broken)[1]
             b  == Head(broken)[2]
             v1 == IF Len(formed) > 0 THEN FormedLoop(v, Head(broken), formed)
                   ELSE [scan |-> Some(BrokenScanText(ActiveAtomsText(a, b),
                                                      dmat_angstrom(a, b))),
                         active_atoms |-> Some(ActiveAtomsText(a, b))]
         IN  BrokenLoop(v1, Tail(broken), formed)

\* _build_scan: [raised, scan, active_atoms].  graph gives the breaking and
\* the forming bond keys in the order the frozensets are iterated.  The
\* return of line 69 raises UnboundLocalError when no branch assigned scan.
_build_scan(graph) ==
    LET v == BrokenLoop([scan |-> None, active_atoms |-> None],
                        graph.broken, graph.formed)
    IN  IF v.scan = None
        THEN [raised |-> "UnboundLocalError", scan |-> <<>>, active_atoms |-> <<>>]
        ELSE [raised |-> "", scan |-> v.scan[1], active_atoms |-> v.active_atoms[1]]

\* Line 42: the transition structure of a reaction, with its breaking and
\* forming bond keys.
transition_graph(ts) ==
    CASE ts = "t1" -> [amchi |-> ts, broken |-> << <<0, 1>> >>, formed |-> <<>>]
      [] ts = "t2" -> [amchi |-> ts, broken |-> << <<0, 1>> >>,
                       formed |-> << <<1, 2>> >>]
      [] ts = "t3" -> [amchi |-> ts, broken |-> << <<1, 2>> >>,
                       formed |-> << <<0, 1>> >>]
      [] ts = "t4" -> [amchi |-> ts, broken |-> << <<0, 1>>, <<2, 3>> >>,
                       formed |-> <<>>]
      [] ts = "t5" -> [amchi |-> ts, broken |-> <<>>, formed |-> << <<0, 1>> >>]

\* _add_transition: the transition node of one reaction; an exception of
\* _build_scan leaves process_rdkit_reaction.
_add_transition(G, ts, reactant_amchis, product_amchis) ==
    LET built_scan == _build_scan(transition_graph(ts))
    IN  IF built_scan.raised # "" THEN [G EXCEPT !.raised = built_scan.raised]
        ELSE add_node(G, ts,
                [xyz          |-> xyz_string(ts),
                 scan         |-> Some(built_scan.scan),
                 active_atoms |-> Some(built_scan.active_atoms),
                 role         |-> "transition",
                 reactants    |-> reactant_amchis,
                 products     |-> product_amchis])

\* Mutant of LinkAll: the edges to the products are left out.
LinkAll_WithoutProducts(G, reactant_amchis, ts, product_amchis) ==
    [G EXCEPT !.edges = @ \cup {<<r, ts>> : r \in Range(reactant_amchis)}]

RECURSIVE LinkAll(_, _, _, _)
\* Lines 94-98: an edge from every reactant to the transition and from the
\* transition to every product.
LinkAll(G, reactant_amchis, ts, product_amchis) ==
    IF reactant_amchis # <<>>
    THEN LinkAll(add_edge(G, Head(reactant_amchis), ts),
                 Tail(reactant_amchis), ts, product_amchis)
    ELSE IF product_amchis # <<>>
    THEN LinkAll(add_edge(G, ts, Head(product_amchis)),
                 reactant_amchis, ts, Tail(product_amchis))
    ELSE G

RECURSIVE AddReactions(_, _, _, _)
\* Lines 91-98: the loop over the reactions of one product set.
AddReactions(G, reactions, reactant_amchis, product_amchis) ==
    IF reactions = <<>> \/ G.raised # "" THEN G
    ELSE LET ts == Head(reactions)
             G1 == _add_transition(G, ts, reactant_amchis, product_amchis)
             G2 == IF G1.raised # "" THEN G1
                   ELSE LinkAll(G1, reactant_amchis, ts, product_amchis)
         IN  AddReactions(G2, Tail(reactions), reactant_amchis, product_amchis)

RECURSIVE AddProductSets(_, _, _)
\* Lines 88-98: the loop over the candidate product sets.
AddProductSets(G, reactant_amchis, product_sets) ==
    IF product_sets = <<>> \/ G.raised # "" THEN G
    ELSE LET added == _add_stationary(G, Head(product_sets), "product")
             G1    == AddReactions(added.graph,
                          reaction_graphs(reactant_amchis, added.amchis),
                          reactant_amchis, added.amchis)
         IN  AddProductSets(G1, reactant_amchis, Tail(product_sets))

process_rdkit_reaction(reactants, product_sets) ==
    LET added == _add_stationary(EmptyGraph, reactants, "reactant")
    IN  AddProductSets(added.graph, added.amchis, product_sets)

\* The builder calls of the model: a reactant list and its candidate product
\* sets.  They cover one and two reactants and products, both enantiomers of
\* one species, a species that is reactant and product, pairings with none,
\* one and two transition structures, and two candidate sets.
BuilderInputs ==
    { [reactants |-> <<"m1">>,        product_sets |-> << <<"m2", "m3">> >>],
      [reactants |-> <<"m1e">>,       product_sets |-> << <<"m3", "m2">> >>],
      [reactants |-> <<"m2", "m3">>,  product_sets |-> << <<"m1">> >>],
      [reactants |-> <<"m3">>,        product_sets |-> << <<"m2">> >>],
      [reactants |-> <<"m3">>,        product_sets |-> << <<"m1">>, <<"m2">> >>],
      [reactants |-> <<"m1">>,        product_sets |-> << <<"m1e">> >>],
      [reactants |-> <<"m2">>,        product_sets |-> << <<"m2", "m3">> >>] }

\* The WorkGraphs the pipeline hands to the reconciler.
Graphs ==
    {G \in {process_rdkit_reaction(x.reactants, x.product_sets) : x \in BuilderInputs} :
        G.raised = ""}

(***************************************************************************)
(* Calls of _build_scan on the transition structures the chemistry         *)
(* collaborator can hand over: up to MaxBonds breaking and forming bond    *)
(* keys each, in every iteration order.                                    *)
(***************************************************************************)
\* Most breaking bonds, and most forming bonds, of a transition structure.
MaxBonds == 2

\* The lists of up to MaxBonds different bond keys.
BondLists ==
    UNION { {q \in [1..n -> BondKeys] : \A i, j \in 1..n : q[i] = q[j] => i = j} :
            n \in 0..MaxBonds }

InitScan ==
    /\ stationary = <<>>
    /\ transition = <<>>
    /\ energies = <<>>
    /\ durable = [stationary |-> <<>>, transition |-> <<>>, energies |-> <<>>]
    /\ files = [k \in {} |-> <<>>]
    /\ logs = [k \in {} |-> <<>>]
    /\ ret = [op |-> "init", graph |-> EmptyGraph, repeat |-> FALSE,
              retry |-> FALSE, outcome |-> "ok", to_submit |-> [k \in {} |-> <<>>]]
    /\ runs = [k \in {} |-> <<>>]
    /\ lock = None
    /\ hq = [pc |-> "idle"]
    /\ \E broken \in BondLists, formed \in BondLists :
          built = [pc |-> "call",
                   graph |-> [amchi |-> "ts", broken |-> broken, formed |-> formed],
                   result |-> [raised |-> "", scan |-> <<>>, active_atoms |-> <<>>]]

\* Line 71: scan, active_atoms = _build_scan()
BuildScan ==
    /\ built.pc = "call"
    /\ built' = [built EXCEPT !.pc = "returned",
                              !.result = _build_scan(built.graph)]
    /\ UNCHANGED <<stationary, transition, energies, durable, files, logs, ret,
                   runs, lock, hq>>

NextScan == BuildScan

SpecScan == InitScan /\ [][NextScan]_vars

(***************************************************************************)
(* The persistent store (sql.initialize_database) and Python dicts.        *)
(***************************************************************************)
EmptyDict == [k \in {} |-> None]

\* d[k] = v
DictSet(d, k, v) == (k :> v) @@ d

EmptyTables == [stationary |-> <<>>, transition |-> <<>>, energies |-> <<>>]

\* INTEGER PRIMARY KEY: a new row gets the largest id of the table plus one.
NextRowId(table) ==
    IF table = <<>> THEN 1
    ELSE 1 + CHOOSE m \in {table[i].id : i \in 1..Len(table)} :
                 \A i \in 1..Len(table) : table[i].id <= m

\* Mutant of SelectId: the lookup never matches a stored row.
SelectId_NeverMatches(table, amchi) == None

\* SELECT id FROM <table> WHERE amchi = ?, then fetchone(): the id of the
\* first matching row as Some(id), or None.
SelectId(table, amchi) ==
    LET hits == {i \in 1..Len(table) : table[i].amchi = amchi}
    IN  IF hits = {} THEN None
        ELSE Some(table[CHOOSE i \in hits : \A j \in hits : i <= j].id)

(***************************************************************************)
(* Store Reconciler: sql.enumerated_graph_into_database.  A pass works on  *)
(* its locals c: the connection's view of the tables, the data root,       *)
(* to_submit, amchi_to_ids, and how the pass is going ("ok" until an       *)
(* exception leaves it).  c.fault is the environment's part: the number of *)
(* new nodes handled before an INSERT is refused ("execute") or the seed   *)
(* file cannot be written ("write"); None when nothing goes wrong.         *)
(***************************************************************************)
NoFault == None

StartPass(view, dataroot, fault) ==
    [stationary |-> view.stationary, transition |-> view.transition,
     files |-> dataroot, to_submit |-> EmptyDict, amchi_to_ids |-> EmptyDict,
     outcome |-> "ok", fault |-> fault]

FaultNow(c, kind) == c.fault # None /\ c.fault[1].after = 0 /\ c.fault[1].kind = kind

\* One new node has been handled without the fault striking.
Spend(c) ==
    IF c.fault = None THEN c
    ELSE [c EXCEPT !.fault = Some([c.fault[1] EXCEPT !.after = @ - 1])]

\* Lines 50-52 and 86-88: the working directory and its seed geometry.
WriteSeed(dataroot, amchi, xyz) == DictSet(dataroot, amchi, xyz \o "\n")

\* Line 31: nodes the first loop handles.
IsStationaryRole(role) == role \in {"reactant", "product"}

\* Line 60: role not in ("transition") is a substring test on the str
\* "transition"; of the roles the builder writes, only "transition" passes.
IsTransitionRole(role) == role = "transition"

\* Mutant of StationaryFound: a node that is already stored replaces its row
\* (INSERT OR REPLACE), which deletes the row and stores a new one.
StationaryFound_Replaces(c, node, result) ==
    LET id  == NextRowId(c.stationary)
        row == [id |-> id, amchi |-> node.amchi, smiles |-> node.smiles,
                xyz |-> node.xyz]
    IN  [c EXCEPT !.stationary =
                      Append(SelectSeq(@, LAMBDA r : r.amchi # node.amchi), row),
                  !.amchi_to_ids = DictSet(@, node.amchi, id)]

\* Lines 40-57: what the first loop does with a looked-up stationary node.
StationaryFound(c, node, result) ==
    [c EXCEPT !.amchi_to_ids = DictSet(@, node.amchi, result[1])]

StationaryInsert(c, node) ==
    IF FaultNow(c, "execute") THEN [c EXCEPT !.outcome = "StoreError"]
    ELSE LET id  == NextRowId(c.stationary)
             row == [id |-> id, amchi |-> node.amchi, smiles |-> node.smiles,
                     xyz |-> node.xyz]
             c1  == [c EXCEPT !.stationary = Append(@, row),
                              !.amchi_to_ids = DictSet(@, node.amchi, id)]
         IN  IF FaultNow(c, "write") THEN [c1 EXCEPT !.outcome = "OSError"]
             ELSE Spend([c1 EXCEPT
                     !.files = WriteSeed(@, node.amchi, node.xyz),
                     !.to_submit = DictSet(@, node.amchi, "stationary")])

\* Mutant of StationaryNode: the node is inserted whatever the lookup finds.
StationaryNode_AlwaysInserts(c, node) ==
    IF ~IsStationaryRole(node.role) THEN c ELSE StationaryInsert(c, node)

\* Lines 30-57: one iteration of the first loop.
StationaryNode(c, node) ==
    IF ~IsStationaryRole(node.role) THEN c
    ELSE LET result == SelectId(c.stationary, node.amchi)
         IN  IF result = None THEN StationaryInsert(c, node)
             ELSE StationaryFound(c, node, result)

\* Line 69: "\n".join(scan).
RECURSIVE scan_string(_)
scan_string(scan) ==
    IF Len(scan) <= 1 THEN scan
    ELSE <<Head(scan), "\n">> \o scan_string(Tail(scan))

\* Mutant of NeighborId: every key is taken from the first neighbour.
NeighborId_AlwaysFirst(c, amchis, k) ==
    IF Len(amchis) >= k THEN Some(c.amchi_to_ids[amchis[1]]) ELSE None

\* Lines 73-76: the neighbour's row id, None past the end of the list.
NeighborId(c, amchis, k) ==
    IF Len(amchis) >= k THEN Some(c.amchi_to_ids[amchis[k]]) ELSE None

\* Lines 66-90: a transition node that has no row yet.
TransitionInsert(c, node) ==
    IF \/ node.reactants = <<>> \/ node.products = <<>>
       \/ \E k \in 1..2 : \/ /\ Len(node.reactants) >= k
                             /\ node.reactants[k] \notin DOMAIN c.amchi_to_ids
                          \/ /\ Len(node.products) >= k
                             /\ node.products[k] \notin DOMAIN c.amchi_to_ids
    THEN [c EXCEPT !.outcome = "KeyError"]
    ELSE IF FaultNow(c, "execute") THEN [c EXCEPT !.outcome = "StoreError"]
    ELSE LET row == [id |-> NextRowId(c.transition), amchi |-> node.amchi,
                     reactant_1 |-> NeighborId(c, node.reactants, 1),
                     reactant_2 |-> NeighborId(c, node.reactants, 2),
                     product_1  |-> NeighborId(c, node.products, 1),
                     product_2  |-> NeighborId(c, node.products, 2),
                     xyz |-> node.xyz, scan |-> scan_string(node.scan[1])]
             c1  == [c EXCEPT !.transition = Append(@, row)]
         IN  IF FaultNow(c, "write") THEN [c1 EXCEPT !.outcome = "OSError"]
             ELSE Spend([c1 EXCEPT
                     !.files = WriteSeed(@, node.amchi, node.xyz),
                     !.to_submit = DictSet(@, node.amchi, "transition")])

\* Mutant of TransitionNode: the row is inserted without the lookup.
TransitionNode_AlwaysInserts(c, node) ==
    IF ~IsTransitionRole(node.role) THEN c ELSE TransitionInsert(c, node)

\* Mutant of TransitionNode: a transition that is already stored is reported
\* as new work again.
TransitionNode_ReportsStored(c, node) ==
    IF ~IsTransitionRole(node.role) THEN c
    ELSE IF SelectId(c.transition, node.amchi) = None
         THEN TransitionInsert(c, node)
         ELSE [c EXCEPT !.to_submit = DictSet(@, node.amchi, "transition")]

\* Lines 59-90: one iteration of the second loop.
TransitionNode(c, node) ==
    IF ~IsTransitionRole(node.role) THEN c
    ELSE IF SelectId(c.transition, node.amchi) = None
         THEN TransitionInsert(c, node)
         ELSE c

RECURSIVE StationaryLoop(_, _)
StationaryLoop(c, nodes) ==
    IF nodes = <<>> \/ c.outcome # "ok" THEN c
    ELSE StationaryLoop(StationaryNode(c, Head(nodes)), Tail(nodes))

RECURSIVE TransitionLoop(_, _)
TransitionLoop(c, nodes) ==
    IF nodes = <<>> \/ c.outcome # "ok" THEN c
    ELSE TransitionLoop(TransitionNode(c, Head(nodes)), Tail(nodes))

\* The whole pass up to the commit of line 92.
enumerated_graph_into_database(G, view, dataroot, fault) ==
    TransitionLoop(StationaryLoop(StartPass(view, dataroot, fault), G.nodes),
                   G.nodes)

(***************************************************************************)
(* The pipeline on one store: reconciliation passes run one after another, *)
(* each on the current connection, and reconnections.                      *)
(***************************************************************************)
\* Most new nodes a pass handles before an injected fault strikes.
MaxFaultAfter == 1

Faults ==
    {NoFault} \cup {Some([after |-> k, kind |-> kd]) :
                        k \in 0..MaxFaultAfter, kd \in {"execute", "write"}}

View == [stationary |-> stationary, transition |-> transition,
         energies |-> energies]

NoLogs == [a \in {} |-> None]

IdleRuns == [r \in {} |-> None]

IdleHq == [pc |-> "idle"]

NoBuild == [pc |-> "idle"]

\* What the caller holds after a pass: the operation, the graph it was given,
\* whether that is the graph of the pass just before it on this connection,
\* how the pass ended and the dict it returned.
Returned(op, G, repeat, outcome, to_submit) ==
    [op |-> op, graph |-> G, repeat |-> repeat, retry |-> FALSE,
     outcome |-> outcome, to_submit |-> to_submit]

\* The pass is given the graph of the last pass, and that pass was left by
\* an error of the store or of the data root.
RetryOf(G) ==
    /\ ret.op \in {"reconcile", "connect"}
    /\ ret.outcome \in {"StoreError", "OSError"}
    /\ ret.graph = G

SameAsLast(G) == ret.op = "reconcile" /\ ret.outcome = "ok" /\ ret.graph = G

InitStore ==
    /\ stationary = <<>>
    /\ transition = <<>>
    /\ energies = <<>>
    /\ durable = EmptyTables
    /\ files = EmptyDict
    /\ logs = NoLogs
    /\ ret = Returned("init", EmptyGraph, FALSE, "ok", EmptyDict)
    /\ runs = IdleRuns
    /\ lock = None
    /\ hq = IdleHq
    /\ built = NoBuild

\* One call of enumerated_graph_into_database on the current connection.
\* The commit of line 92 is reached only when no exception left the loops.
Reconcile(G, fault) ==
    LET c == enumerated_graph_into_database(G, View, files, fault)
    IN  /\ stationary' = c.stationary
        /\ transition' = c.transition
        /\ files' = c.files
        /\ durable' = IF c.outcome = "ok"
                      THEN [stationary |-> c.stationary,
                            transition |-> c.transition,
                            energies |-> energies]
                      ELSE durable
        /\ ret' = [Returned("reconcile", G, SameAsLast(G), c.outcome,
                             IF c.outcome = "ok" THEN c.to_submit ELSE EmptyDict)
                       EXCEPT !.retry = RetryOf(G)]
        /\ UNCHANGED <<energies, logs, runs, lock, hq, built>>

\* The connection is dropped with its uncommitted changes and sql.connect
\* opens a new one on the same data directory.
Reconnect ==
    /\ View # durable
    /\ stationary' = durable.stationary
    /\ transition' = durable.transition
    /\ energies' = durable.energies
    /\ ret' = Returned("connect", ret.graph, FALSE, ret.outcome, EmptyDict)
    /\ UNCHANGED <<durable, files, logs, runs, lock, hq, built>>

NextStore ==
    \E G \in Graphs : Reconcile(G, NoFault)

SpecStore == InitStore /\ [][NextStore]_vars

\* Passes that the store or the data root may fail in the middle, and
\* reconnections that drop what such a pass left uncommitted.
RecoveryGraphs ==
    { process_rdkit_reaction(<<"m2", "m3">>, << <<"m1">> >>),
      process_rdkit_reaction(<<"m3">>, << <<"m2">> >>) }

NextRecovery ==
    \/ \E G \in RecoveryGraphs, fault \in Faults : Reconcile(G, fault)
    \/ Reconnect

SpecRecovery == InitStore /\ [][NextRecovery]_vars

(***************************************************************************)
(* Calls of the Graph Builder: a list of reactant molecules and a list of  *)
(* candidate product sets.                                                 *)
(***************************************************************************)
\* Most molecules of a reactant list or of a product set.
MaxMols == 2

\* Most candidate product sets of a call.
MaxSets == 2

MolLists == UNION {[1..n -> Mols] : n \in 1..MaxMols}

ProductSetLists == UNION {[1..n -> MolLists] : n \in 1..MaxSets}

\* One call of process_rdkit_reaction.
Build(reactants, product_sets) ==
    LET G == process_rdkit_reaction(reactants, product_sets)
    IN  /\ built.pc = "idle"
        /\ built' = [pc |-> "built", reactants |-> reactants,
                     product_sets |-> product_sets]
        /\ ret' = Returned("build", G, FALSE,
                           IF G.raised = "" THEN "ok" ELSE G.raised, EmptyDict)
        /\ UNCHANGED <<stationary, transition, energies, durable, files, logs,
                       runs, lock, hq>>

NextBuilder ==
    /\ built.pc = "idle"
    /\ \E reactants \in MolLists, product_sets \in ProductSetLists :
          Build(reactants, product_sets)

SpecBuilder == InitStore /\ [][NextBuilder]_vars

(***************************************************************************)
(* Two pipeline runs against the same store.  Each run has a connection of *)
(* its own and executes enumerated_graph_into_database statement by        *)
(* statement.  sqlite3 opens a transaction at a connection's first INSERT  *)
(* (the write lock; a second writer waits, and gives up after the busy     *)
(* timeout) and closes it at commit; a SELECT reads what is committed plus *)
(* the connection's own uncommitted rows.                                  *)
(***************************************************************************)
Runs == {"A", "B"}

IdleRun == [pc |-> "idle", graph |-> EmptyGraph, i |-> 0, result |-> None,
            c |-> StartPass(EmptyTables, EmptyDict, NoFault)]

InitConcurrent ==
    /\ stationary = <<>>
    /\ transition = <<>>
    /\ energies = <<>>
    /\ durable = EmptyTables
    /\ files = EmptyDict
    /\ logs = NoLogs
    /\ ret = Returned("init", EmptyGraph, FALSE, "ok", EmptyDict)
    /\ runs = [r \in Runs |-> IdleRun]
    /\ lock = None
    /\ hq = IdleHq
    /\ built = NoBuild

\* The run's locals, with the tables as its connection sees them now and the
\* data root as it is now.
Locals(r) ==
    IF lock = Some(r) THEN [runs[r].c EXCEPT !.files = files]
    ELSE [runs[r].c EXCEPT !.stationary = durable.stationary,
                           !.transition = durable.transition,
                           !.files = files]

\* The position after node i of the loop at pc: the next node of that loop's
\* role, else the next loop, else the commit.
NextPosition(G, pc, i) ==
    LET mine(j) == IF pc = "stationary" THEN IsStationaryRole(G.nodes[j].role)
                   ELSE IsTransitionRole(G.nodes[j].role)
        later   == {j \in (i + 1)..Len(G.nodes) : mine(j)}
        trans   == {j \in 1..Len(G.nodes) : IsTransitionRole(G.nodes[j].role)}
        first(S) == CHOOSE j \in S : \A k \in S : j <= k
    IN  IF later # {} THEN [pc |-> pc, i |-> first(later)]
        ELSE IF pc = "stationary" /\ trans # {}
             THEN [pc |-> "transition", i |-> first(trans)]
             ELSE [pc |-> "commit", i |-> 0]

\* The call: lines 26-29.
RunStart(r, G) ==
    /\ runs[r].pc = "idle"
    /\ runs' = [runs EXCEPT ![r] =
           [IdleRun EXCEPT !.graph = G,
                           !.pc = NextPosition(G, "stationary", 0).pc,
                           !.i = NextPosition(G, "stationary", 0).i]]
    /\ UNCHANGED <<stationary, transition, energies, durable, files, logs, ret,
                   lock, hq, built>>

\* Lines 37-38 and 63-64: the SELECT of the node at hand and fetchone().
RunSelect(r) ==
    LET me   == runs[r]
        node == me.graph.nodes[me.i]
    IN  /\ me.pc \in {"stationary", "transition"}
        /\ runs' = [runs EXCEPT ![r] =
               [me EXCEPT !.pc = IF me.pc = "stationary" THEN "stationary_got"
                                 ELSE "transition_got",
                          !.result = SelectId(IF me.pc = "stationary"
                                              THEN Locals(r).stationary
                                              ELSE Locals(r).transition,
                                              node.amchi)]]
        /\ UNCHANGED <<stationary, transition, energies, durable, files, logs,
                       ret, lock, hq, built>>

\* How the run goes on after the node at hand, with locals c.
RunAfterNode(r, c) ==
    LET me   == runs[r]
        loop == IF me.pc = "stationary_got" THEN "stationary" ELSE "transition"
        nxt  == NextPosition(me.graph, loop, me.i)
    IN  [me EXCEPT !.c = c, !.result = None,
                   !.pc = IF c.outcome = "ok" THEN nxt.pc ELSE "failed",
                   !.i = IF c.outcome = "ok" THEN nxt.i ELSE 0]

\* Lines 56-57, and a transition that is stored: nothing is written.
RunFound(r) ==
    LET me   == runs[r]
        node == me.graph.nodes[me.i]
    IN  /\ me.pc \in {"stationary_got", "transition_got"}
        /\ me.result # None
        /\ runs' = [runs EXCEPT ![r] =
               RunAfterNode(r, IF me.pc = "stationary_got"
                               THEN StationaryFound(Locals(r), node, me.result)
                               ELSE Locals(r))]
        /\ UNCHANGED <<stationary, transition, energies, durable, files, logs,
                       ret, lock, hq, built>>

\* Lines 40-54 and 66-90: the INSERT, once the write lock is the run's, and
\* the seed file.
RunInsert(r) ==
    LET me   == runs[r]
        node == me.graph.nodes[me.i]
        c    == IF me.pc = "stationary_got" THEN StationaryInsert(Locals(r), node)
                ELSE TransitionInsert(Locals(r), node)
    IN  /\ me.pc \in {"stationary_got", "transition_got"}
        /\ me.result = None
        /\ lock \in {None, Some(r)}
        /\ lock' = Some(r)
        /\ files' = c.files
        /\ runs' = [runs EXCEPT ![r] = RunAfterNode(r, c)]
        /\ UNCHANGED <<stationary, transition, energies, durable, logs, ret, hq, built>>

\* The INSERT of a run that found the store locked by the other run for the
\* whole busy timeout: sqlite3.OperationalError leaves the pass.
RunBusy(r) ==
    LET me == runs[r]
    IN  /\ me.pc \in {"stationary_got", "transition_got"}
        /\ me.result = None
        /\ lock \notin {None, Some(r)}
        /\ runs' = [runs EXCEPT ![r] = [me EXCEPT !.pc = "failed", !.i = 0,
                                                  !.result = None]]
        /\ UNCHANGED <<stationary, transition, energies, durable, files, logs,
                       ret, lock, hq, built>>

\* Line 92: the commit, and the return of to_submit.
RunCommit(r) ==
    LET me == runs[r]
    IN  /\ me.pc = "commit"
        /\ IF lock = Some(r)
           THEN /\ durable' = [durable EXCEPT !.stationary = me.c.stationary,
                                              !.transition = me.c.transition]
                /\ lock' = None
           ELSE UNCHANGED <<durable, lock>>
        /\ runs' = [runs EXCEPT ![r] = [me EXCEPT !.pc = "done"]]
        /\ UNCHANGED <<stationary, transition, energies, files, logs, ret, hq, built>>

NextConcurrent ==
    \E r \in Runs :
        \/ \E G \in Graphs : RunStart(r, G)
        \/ RunSelect(r)
        \/ RunFound(r)
        \/ RunInsert(r)
        \/ RunBusy(r)
        \/ RunCommit(r)

SpecConcurrent == InitConcurrent /\ [][NextConcurrent]_vars

(***************************************************************************)
(* Result Harvester: orc.parse_log_file and sql.log_energies.              *)
(*                                                                         *)
(* A log file is None when it does not exist, else Some(lines); a line is  *)
(* [marker, value]: the marker string it contains ("" for none of them)    *)
(* and the numeric token the harvester takes from such a line.  Energies   *)
(* are kept in units of 1e-4 kcal/mol.                                     *)
(***************************************************************************)
SPC == "FINAL SINGLE POINT ENERGY"

ZPE == "Zero point energy"

IMAG == "***imaginary mode***"

Line(marker, value) == [marker |-> marker, value |-> value]

\* Hartree to kcal/mol, line 146: 627.5095, in units of 1e-4.
HartreeToKcal == 6275095

\* One kcal/mol in units of 1e-4.
Kcal == 10000

\* The lines of a file that contain the search string, in order.
RECURSIVE Matches(_, _)
Matches(lines, search_string) ==
    IF lines = <<>> THEN <<>>
    ELSE (IF Head(lines).marker = search_string THEN <<Head(lines)>> ELSE <<>>)
         \o Matches(Tail(lines), search_string)

\* parse_log_file: [raised, line].  open() raises FileNotFoundError on a file
\* that does not exist and mmap raises ValueError on an empty one; the line
\* is Some(line) for exactly one match and None otherwise.
parse_log_file(log_file, search_string) ==
    IF log_file = None THEN [raised |-> "FileNotFoundError", line |-> None]
    ELSE IF log_file[1] = <<>> THEN [raised |-> "ValueError", line |-> None]
    ELSE LET matches == Matches(log_file[1], search_string)
         IN  [raised |-> "",
              line |-> IF Len(matches) = 1 THEN Some(matches[1]) ELSE None]

\* Mutant of _parse_energies: a missing zero-point energy counts as zero in
\* the total.
_parse_energies_TotalWithoutZpv(dir) ==
    LET spc_line == parse_log_file(dir.calc, SPC)
        spc      == IF spc_line.line # None
                    THEN Some(spc_line.line[1].value * HartreeToKcal) ELSE None
        zpv_line == parse_log_file(dir.freq, ZPE)
        zpv      == IF zpv_line.line # None
                    THEN Some(zpv_line.line[1].value * Kcal) ELSE None
        tot      == IF spc = None THEN None
                    ELSE IF zpv = None THEN spc
                    ELSE Some(spc[1] + zpv[1])
    IN  IF spc_line.raised # "" THEN [raised |-> spc_line.raised, spc |-> None,
                                      zpv |-> None, tot |-> None]
        ELSE IF zpv_line.raised # "" THEN [raised |-> zpv_line.raised,
                                           spc |-> None, zpv |-> None, tot |-> None]
        ELSE [raised |-> "", spc |-> spc, zpv |-> zpv, tot |-> tot]

\* _parse_energies, lines 144-153: [raised, spc, zpv, tot].
_parse_energies(dir) ==
    LET spc_line == parse_log_file(dir.calc, SPC)
        spc      == IF spc_line.line # None
                    THEN Some(spc_line.line[1].value * HartreeToKcal) ELSE None
        zpv_line == parse_log_file(dir.freq, ZPE)
        zpv      == IF zpv_line.line # None
                    THEN Some(zpv_line.line[1].value * Kcal) ELSE None
        tot      == IF spc = None \/ zpv = None THEN None
                    ELSE Some(spc[1] + zpv[1])
    IN  IF spc_line.raised # "" THEN [raised |-> spc_line.raised, spc |-> None,
                                      zpv |-> None, tot |-> None]
        ELSE IF zpv_line.raised # "" THEN [raised |-> zpv_line.raised,
                                           spc |-> None, zpv |-> None, tot |-> None]
        ELSE [raised |-> "", spc |-> spc, zpv |-> zpv, tot |-> tot]

\* _parse_imaginary and lines 217-218 / 227-228: [raised, imag].  The line is
\* None for no match or several, and None.strip() raises AttributeError.
_parse_imaginary(dir) ==
    LET imaginary_line == parse_log_file(dir.freq, IMAG)
    IN  IF imaginary_line.raised # ""
        THEN [raised |-> imaginary_line.raised, imag |-> None]
        ELSE IF imaginary_line.line = None
        THEN [raised |-> "AttributeError", imag |-> None]
        ELSE [raised |-> "", imag |-> Some(imaginary_line.line[1].value)]

\* SELECT ... FROM energies WHERE <key> = ?, then fetchone(): the index of
\* the first matching row, 0 for none.
\* Mutant of SelectEnergy: the lookup of the energies row finds nothing.
SelectEnergy_NeverFinds(table, key, id) == 0

SelectEnergy(table, key, id) ==
    LET hits == {i \in 1..Len(table) : table[i][key] = Some(id)}
    IN  IF hits = {} THEN 0 ELSE CHOOSE i \in hits : \A j \in hits : i <= j

\* UPDATE energies SET single_point, zero_point, total_energy WHERE <key> = ?
UpdateEnergies(table, key, id, e) ==
    [i \in 1..Len(table) |->
        IF table[i][key] = Some(id)
        THEN [table[i] EXCEPT !.single_point = e.spc, !.zero_point = e.zpv,
                              !.total_energy = e.tot]
        ELSE table[i]]

\* UPDATE energies SET imaginary_frequency WHERE transition_id = ?
UpdateImaginary(table, id, imag) ==
    [i \in 1..Len(table) |->
        IF table[i].transition_id = Some(id)
        THEN [table[i] EXCEPT !.imaginary_frequency = imag]
        ELSE table[i]]

\* INSERT INTO energies: the columns not named are NULL.
InsertEnergies(table, key, id, e, imag) ==
    Append(table,
        [id |-> NextRowId(table),
         stationary_id |-> IF key = "stationary_id" THEN Some(id) ELSE None,
         transition_id |-> IF key = "transition_id" THEN Some(id) ELSE None,
         single_point |-> e.spc, zero_point |-> e.zpv, total_energy |-> e.tot,
         imaginary_frequency |-> imag])

Incomplete(row) ==
    row.single_point = None \/ row.zero_point = None \/ row.total_energy = None

\* The directory of an identifier under the data root.
LogDir(dirs, amchi) ==
    IF amchi \in DOMAIN dirs THEN dirs[amchi] ELSE [calc |-> None, freq |-> None]

\* The locals of a harvest pass: the energies table as the connection sees
\* it, what is committed, and how the pass is going.
Raise(h, raised) == [h EXCEPT !.outcome = raised]

\* Lines 165-191: one iteration of the loop over the stationary rows.
HarvestStationary(h, rec, dirs) ==
    LET k == SelectEnergy(h.energies, "stationary_id", rec.id)
        e == _parse_energies(LogDir(dirs, rec.amchi))
    IN  IF k # 0
        THEN IF ~Incomplete(h.energies[k]) THEN h
             ELSE IF e.raised # "" THEN Raise(h, e.raised)
             ELSE [h EXCEPT !.energies =
                      UpdateEnergies(@, "stationary_id", rec.id, e)]
        ELSE IF e.raised # "" THEN Raise(h, e.raised)
             ELSE [h EXCEPT !.energies =
                      InsertEnergies(@, "stationary_id", rec.id, e, None)]

\* Lines 204-223: a transition row that has an energies row.
HarvestKnownTransition(h, rec, dirs, k) ==
    LET e  == _parse_energies(LogDir(dirs, rec.amchi))
        im == _parse_imaginary(LogDir(dirs, rec.amchi))
        h1 == IF ~Incomplete(h.energies[k]) THEN h
              ELSE IF e.raised # "" THEN Raise(h, e.raised)
              ELSE [h EXCEPT !.energies =
                       UpdateEnergies(@, "transition_id", rec.id, e)]
    IN  IF h1.outcome # "ok" \/ h.energies[k].imaginary_frequency # None THEN h1
        ELSE IF im.raised # "" THEN Raise(h1, im.raised)
        ELSE [h1 EXCEPT !.energies = UpdateImaginary(@, rec.id, im.imag)]

\* Lines 225-233: a transition row that has no energies row.
HarvestNewTransition(h, rec, dirs) ==
    LET e  == _parse_energies(LogDir(dirs, rec.amchi))
        im == _parse_imaginary(LogDir(dirs, rec.amchi))
    IN  IF e.raised # "" THEN Raise(h, e.raised)
        ELSE IF im.raised # "" THEN Raise(h, im.raised)
        ELSE [h EXCEPT !.energies =
                 InsertEnergies(@, "transition_id", rec.id, e, im.imag)]

\* Line 235: connection.commit(), in the body of the loop over the
\* transition rows.
CommitHarvest(h) ==
    IF h.outcome # "ok" THEN h
    ELSE [h EXCEPT !.durable = [stationary |-> h.stationary,
                                transition |-> h.transition,
                                energies |-> h.energies]]

\* Lines 196-235: one iteration of the loop over the transition rows.
HarvestTransition(h, rec, dirs) ==
    LET k == SelectEnergy(h.energies, "transition_id", rec.id)
    IN  CommitHarvest(IF k # 0 THEN HarvestKnownTransition(h, rec, dirs, k)
                      ELSE HarvestNewTransition(h, rec, dirs))

RECURSIVE HarvestStationaryLoop(_, _, _)
HarvestStationaryLoop(h, rows, dirs) ==
    IF rows = <<>> \/ h.outcome # "ok" THEN h
    ELSE HarvestStationaryLoop(HarvestStationary(h, Head(rows), dirs),
                               Tail(rows), dirs)

RECURSIVE HarvestTransitionLoop(_, _, _)
HarvestTransitionLoop(h, rows, dirs) ==
    IF rows = <<>> \/ h.outcome # "ok" THEN h
    ELSE HarvestTransitionLoop(HarvestTransition(h, Head(rows), dirs),
                               Tail(rows), dirs)

\* The whole pass.
log_energies(view, committed, dirs) ==
    LET h0 == [stationary |-> view.stationary, transition |-> view.transition,
               energies |-> view.energies, durable |-> committed,
               outcome |-> "ok"]
    IN  HarvestTransitionLoop(
            HarvestStationaryLoop(h0, view.stationary, dirs),
            view.transition, dirs)

(***************************************************************************)
(* Harvesting on one store: the jobs of the cluster write and rewrite the  *)
(* log files, harvest passes run one after another on the current          *)
(* connection, and the connection may be replaced.                         *)
(***************************************************************************)
NoFile == None

File(lines) == Some(lines)

\* What a working directory can hold: nothing yet; a finished single point
\* with a frequency log that has no marker; complete logs without and with
\* an imaginary mode; logs that print every quantity twice; an empty
\* calc.log.
LogDirs ==
    { [calc |-> NoFile, freq |-> NoFile],
      [calc |-> File(<<Line(SPC, 2)>>), freq |-> File(<<Line("", 0)>>)],
      [calc |-> File(<<Line(SPC, 2)>>), freq |-> File(<<Line(ZPE, 3)>>)],
      [calc |-> File(<<Line(SPC, 2)>>),
       freq |-> File(<<Line(IMAG, 5), Line(ZPE, 3)>>)],
      [calc |-> File(<<Line(SPC, 2), Line("", 0), Line(SPC, 2)>>),
       freq |-> File(<<Line(IMAG, 5), Line(ZPE, 3), Line(IMAG, 5), Line(ZPE, 3)>>)],
      [calc |-> File(<<>>), freq |-> NoFile] }

\* The stores harvesting starts from: an empty store reconciled with a graph
\* of one species, and with a graph of two species and a transition.
HarvestGraphs ==
    { process_rdkit_reaction(<<"m1">>, << <<"m1e">> >>),
      process_rdkit_reaction(<<"m3">>, << <<"m2">> >>) }

InitHarvest ==
    \E G \in HarvestGraphs :
        LET c == enumerated_graph_into_database(G, EmptyTables, EmptyDict, NoFault)
        IN  /\ stationary = c.stationary
            /\ transition = c.transition
            /\ energies = <<>>
            /\ durable = [stationary |-> c.stationary,
                          transition |-> c.transition, energies |-> <<>>]
            /\ files = c.files
            /\ logs = [a \in DOMAIN c.files |-> [calc |-> NoFile, freq |-> NoFile]]
            /\ ret = Returned("reconcile", G, FALSE, c.outcome, c.to_submit)
            /\ runs = IdleRuns
            /\ lock = None
            /\ hq = IdleHq
            /\ built = NoBuild

\* A job (re)writes the logs of one working directory.
WriteLogs(a, dir) ==
    /\ a \in DOMAIN logs
    /\ logs[a] # dir
    /\ logs' = [logs EXCEPT ![a] = dir]
    /\ ret' = Returned("job", EmptyGraph, FALSE, "ok", EmptyDict)
    /\ UNCHANGED <<stationary, transition, energies, durable, files, runs,
                   lock, hq, built>>

\* One call of log_energies on the current connection.
Harvest ==
    LET h == log_energies(View, durable, logs)
    IN  /\ energies' = h.energies
        /\ durable' = h.durable
        /\ ret' = Returned("harvest", EmptyGraph, FALSE, h.outcome,
                           EmptyDict)
        /\ UNCHANGED <<stationary, transition, files, logs, runs, lock, hq, built>>

NextHarvest ==
    \/ \E a \in DOMAIN logs, dir \in LogDirs : WriteLogs(a, dir)
    \/ Harvest
    \/ Reconnect

SpecHarvest == InitHarvest /\ [][NextHarvest]_vars

\* Harvesting on a store with two transition records, whose jobs leave
\* complete logs with or without an imaginary mode.
FinishedLogDirs ==
    { [calc |-> File(<<Line(SPC, 2)>>), freq |-> File(<<Line(ZPE, 3)>>)],
      [calc |-> File(<<Line(SPC, 2)>>),
       freq |-> File(<<Line(IMAG, 5), Line(ZPE, 3)>>)] }

\* The store harvesting starts from: an empty store reconciled with a graph
\* of three species and two transitions.
HarvestTwoGraphs == {process_rdkit_reaction(<<"m2", "m3">>, << <<"m1">> >>)}

InitHarvestTwo ==
    \E G \in HarvestTwoGraphs :
        LET c == enumerated_graph_into_database(G, EmptyTables, EmptyDict, NoFault)
        IN  /\ stationary = c.stationary
            /\ transition = c.transition
            /\ energies = <<>>
            /\ durable = [stationary |-> c.stationary,
                          transition |-> c.transition, energies |-> <<>>]
            /\ files = c.files
            /\ logs = [a \in DOMAIN c.files |-> [calc |-> NoFile, freq |-> NoFile]]
            /\ ret = Returned("reconcile", G, FALSE, c.outcome, c.to_submit)
            /\ runs = IdleRuns
            /\ lock = None
            /\ hq = IdleHq
            /\ built = NoBuild

\* The job of a record ends and leaves its logs; the log of a stationary
\* point has no imaginary mode.
FinishJob(a, dir) ==
    /\ a \in DOMAIN logs
    /\ logs[a] = [calc |-> NoFile, freq |-> NoFile]
    /\ SelectId(stationary, a) # None => Matches(dir.freq[1], IMAG) = <<>>
    /\ WriteLogs(a, dir)

NextHarvestTwo ==
    \/ \E a \in DOMAIN logs, dir \in FinishedLogDirs : FinishJob(a, dir)
    \/ Harvest
    \/ Reconnect

SpecHarvestTwo == InitHarvestTwo /\ [][NextHarvestTwo]_vars

(***************************************************************************)
(* The life of the store: reconciliation passes, which the store or the    *)
(* data root may fail, the jobs of the records they created, harvest       *)
(* passes and reconnections, in any order.                                 *)
(***************************************************************************)
LifecycleGraphs ==
    { process_rdkit_reaction(<<"m1">>, << <<"m1e">> >>),
      process_rdkit_reaction(<<"m3">>, << <<"m2">> >>) }

\* The job of a seeded working directory ends and leaves its logs; the log
\* of a stationary point has no imaginary mode.
RunJob(a, dir) ==
    /\ a \in DOMAIN files
    /\ a \notin DOMAIN logs
    /\ SelectId(stationary, a) # None => Matches(dir.freq[1], IMAG) = <<>>
    /\ logs' = DictSet(logs, a, dir)
    /\ ret' = Returned("job", ret.graph, FALSE, ret.outcome, EmptyDict)
    /\ UNCHANGED <<stationary, transition, energies, durable, files, runs,
                   lock, hq, built>>

NextLifecycle ==
    \/ \E G \in LifecycleGraphs, fault \in Faults : Reconcile(G, fault)
    \/ \E a \in DOMAIN files, dir \in FinishedLogDirs : RunJob(a, dir)
    \/ Harvest
    \/ Reconnect

SpecLifecycle == InitStore /\ [][NextLifecycle]_vars

(***************************************************************************)
(* Job Orchestrator: hyq.submit_tasks_orca and hyq.wait_for_server, with   *)
(* the scheduler (HyperQueue) behind the client: a submitted task waits    *)
(* for its declared dependencies, runs, and finishes or fails; a task      *)
(* whose dependency failed is canceled.                                    *)
(***************************************************************************)
\* Most nodes of a task graph.
MaxTasks == 3

\* range(10) of wait_for_server.
MaxPolls == 10

\* orc.ORCA_Parameters: the defaults, and the defaults with a larger memory
\* request.
ParsChoices ==
    { [name_out |-> "calc", processors |-> 8, max_memory |-> 1000,
       lscratch_size |-> 20, time_limit |-> "04:00:00"],
      [name_out |-> "calc", processors |-> 8, max_memory |-> 2000,
       lscratch_size |-> 20, time_limit |-> "04:00:00"] }

\* ceil(max_memory / 1.049), lines 53 and 91.
MemMib(max_memory) == (max_memory * 1000 + 1048) \div 1049

\* _slurm_alloc: the command line of the allocation request.
_slurm_alloc(pars) ==
    << "hq", "alloc", "add", "slurm", "--time-limit", pars.time_limit,
       "--cpus=" \o ToString(pars.processors),
       "--resource=mem=sum(" \o ToString(MemMib(pars.max_memory)) \o ")",
       "--", "--partition=batch",
       "--ntasks=" \o ToString(pars.processors),
       "--mem-per-cpu=" \o ToString(pars.max_memory),
       "--gres=lscratch:" \o ToString(pars.lscratch_size) >>

\* "".join(allocation), lines 87 and 89.
RECURSIVE Join(_)
Join(words) == IF words = <<>> THEN "" ELSE Head(words) \o Join(Tail(words))

\* Mutant of AllocationKey: the key leaves out the memory and scratch part of
\* the command line.
AllocationKey_WithoutMemory(allocation) == Join(SubSeq(allocation, 1, 7))

\* Lines 87 and 89: the key under which a request is remembered.
AllocationKey(allocation) == Join(allocation)

\* A relation over 1..n with no cycle.
RECURSIVE Acyclic(_, _)
Acyclic(nodes, edges) ==
    \/ nodes = {}
    \/ \E n \in nodes : /\ \A e \in edges : e[2] = n => e[1] \notin nodes
                        /\ Acyclic(nodes \ {n}, edges)

\* The task graphs a caller can pass: 1..MaxTasks nodes, numbered in the
\* order the caller added them, each with its parameters, and dependency
\* edges <<predecessor, successor>> without a cycle.
TaskGraphs ==
    UNION { { [pars |-> p, edges |-> e] :
                p \in [1..n -> ParsChoices],
                e \in {e \in SUBSET {<<a, b>> \in (1..n) \X (1..n) : a # b} :
                          Acyclic(1..n, e)} } :
            n \in 1..MaxTasks }

\* task_graph.predecessors(n)
predecessors(task_graph, n) == {e[1] : e \in {d \in task_graph.edges : d[2] = n}}

InitOrchestrator ==
    /\ stationary = <<>>
    /\ transition = <<>>
    /\ energies = <<>>
    /\ durable = EmptyTables
    /\ files = EmptyDict
    /\ logs = NoLogs
    /\ ret = Returned("init", EmptyGraph, FALSE, "ok", EmptyDict)
    /\ runs = IdleRuns
    /\ lock = None
    /\ built = NoBuild
    /\ \E G \in TaskGraphs :
          hq = [pc |-> "start", task_graph |-> G, polls |-> 0, n |-> 0,
                all_tasks |-> EmptyDict, allocation_requests |-> {},
                issued |-> <<>>, rejected |-> FALSE, status |-> EmptyDict,
                raised |-> ""]

OrchestratorFrame ==
    UNCHANGED <<stationary, transition, energies, durable, files, logs, ret,
                runs, lock, built>>

\* Line 70: start_server().
StartServer ==
    /\ hq.pc = "start"
    /\ hq' = [hq EXCEPT !.pc = "wait_for_server"]
    /\ OrchestratorFrame

\* Mutant of Poll: the loop has no last attempt.
Poll_NeverGivesUp(responds) ==
    /\ hq.pc = "wait_for_server"
    /\ hq' = IF responds
             THEN [hq EXCEPT !.polls = 0, !.pc = "loop", !.n = 1]
             ELSE [hq EXCEPT !.polls = @ + 1]
    /\ OrchestratorFrame

\* Lines 110-119: one status poll of wait_for_server.  The first poll that
\* succeeds returns (the loop counter is gone with the call); the poll that
\* fails as the last of MaxPolls is followed by the RuntimeError of line 119.
Poll(responds) ==
    /\ hq.pc = "wait_for_server"
    /\ hq' = IF responds
             THEN [hq EXCEPT !.polls = 0, !.pc = "loop", !.n = 1]
             ELSE IF hq.polls + 1 = MaxPolls
             THEN [hq EXCEPT !.polls = @ + 1, !.pc = "failed",
                             !.raised = "RuntimeError"]
             ELSE [hq EXCEPT !.polls = @ + 1]
    /\ OrchestratorFrame

\* Mutant of dependent_tasks: the job is created without its dependencies.
dependent_tasks_Dropped(h, n) == {}

\* Line 84: the tasks of the node's predecessors; all_tasks[dep] raises
\* KeyError for a predecessor whose task has not been created.
dependent_tasks(h, n) == {h.all_tasks[dep] : dep \in predecessors(h.task_graph, n)}

\* Mutant of LoopNode: the exit status of the allocation command is not
\* looked at (check=False).
LoopNode_IgnoresRejection(accepted) ==
    LET n    == hq.n
        pars == hq.task_graph.pars[n]
        allocation == _slurm_alloc(pars)
        known == AllocationKey(allocation) \in hq.allocation_requests
        task == [node |-> n, deps |-> dependent_tasks(hq, n),
                 cpus |-> pars.processors, mem |-> MemMib(pars.max_memory)]
    IN  /\ hq.pc = "loop"
        /\ hq.n <= Len(hq.task_graph.pars)
        /\ hq' =
             IF ~(predecessors(hq.task_graph, n) \subseteq DOMAIN hq.all_tasks)
             THEN [hq EXCEPT !.pc = "failed", !.raised = "KeyError"]
             ELSE [hq EXCEPT
                     !.issued = IF known THEN @ ELSE Append(@, allocation),
                     !.rejected = @ \/ (~known /\ ~accepted),
                     !.allocation_requests = @ \cup {AllocationKey(allocation)},
                     !.all_tasks = DictSet(@, n, task),
                     !.status = DictSet(@, n, "pending"),
                     !.n = n + 1]
        /\ OrchestratorFrame

\* Lines 81-102: one iteration of the loop over the nodes.  accepted tells
\* whether the cluster accepts an allocation request made in it; rejected
\* keeps whether the cluster has rejected a request of this run.
LoopNode(accepted) ==
    LET n    == hq.n
        pars == hq.task_graph.pars[n]
        allocation == _slurm_alloc(pars)
        known == AllocationKey(allocation) \in hq.allocation_requests
        task == [node |-> n, deps |-> dependent_tasks(hq, n),
                 cpus |-> pars.processors, mem |-> MemMib(pars.max_memory)]
    IN  /\ hq.pc = "loop"
        /\ hq.n <= Len(hq.task_graph.pars)
        /\ hq' =
             IF ~(predecessors(hq.task_graph, n) \subseteq DOMAIN hq.all_tasks)
             THEN [hq EXCEPT !.pc = "failed", !.raised = "KeyError"]
             ELSE IF ~known /\ ~accepted
             THEN [hq EXCEPT !.pc = "failed", !.raised = "CalledProcessError",
                             !.issued = Append(@, allocation),
                             !.rejected = TRUE]
             ELSE [hq EXCEPT
                     !.issued = IF known THEN @ ELSE Append(@, allocation),
                     !.allocation_requests = @ \cup {AllocationKey(allocation)},
                     !.all_tasks = DictSet(@, n, task),
                     !.status = DictSet(@, n, "pending"),
                     !.n = n + 1]
        /\ OrchestratorFrame

\* Line 104: client.submit(job) hands every task of the job to the
\* scheduler.
Submit ==
    /\ hq.pc = "loop"
    /\ hq.n > Len(hq.task_graph.pars)
    /\ hq' = [hq EXCEPT !.pc = "wait_for_jobs",
                        !.status = [t \in DOMAIN hq.status |-> "submitted"]]
    /\ OrchestratorFrame

\* The scheduler starts a submitted task whose dependencies have completed.
TaskStart(t) ==
    /\ hq.pc = "wait_for_jobs"
    /\ hq.status[t] = "submitted"
    /\ \A d \in hq.all_tasks[t].deps : hq.status[d.node] = "completed"
    /\ hq' = [hq EXCEPT !.status[t] = "running"]
    /\ OrchestratorFrame

\* A running task ends.
TaskEnd(t, ok) ==
    /\ hq.pc = "wait_for_jobs"
    /\ hq.status[t] = "running"
    /\ hq' = [hq EXCEPT !.status[t] = IF ok THEN "completed" ELSE "failed"]
    /\ OrchestratorFrame

\* The scheduler cancels a submitted task one of whose dependencies failed
\* or was canceled.
TaskCancel(t) ==
    /\ hq.pc = "wait_for_jobs"
    /\ hq.status[t] = "submitted"
    /\ \E d \in hq.all_tasks[t].deps : hq.status[d.node] \in {"failed", "canceled"}
    /\ hq' = [hq EXCEPT !.status[t] = "canceled"]
    /\ OrchestratorFrame

\* Line 105: client.wait_for_jobs returns once every task has ended.
WaitReturns ==
    /\ hq.pc = "wait_for_jobs"
    /\ \A t \in DOMAIN hq.status : hq.status[t] \in {"completed", "failed", "canceled"}
    /\ hq' = [hq EXCEPT !.pc = "done"]
    /\ OrchestratorFrame

NextOrchestrator ==
    \/ StartServer
    \/ \E responds \in BOOLEAN : Poll(responds)
    \/ \E accepted \in BOOLEAN : LoopNode(accepted)
    \/ Submit
    \/ \E t \in DOMAIN hq.status :
          \/ TaskStart(t)
          \/ \E ok \in BOOLEAN : TaskEnd(t, ok)
          \/ TaskCancel(t)
    \/ WaitReturns

SpecOrchestrator == InitOrchestrator /\ [][NextOrchestrator]_vars

(***************************************************************************)
(* Properties of the Store Reconciler.                                     *)
(***************************************************************************)
RowsOf(table, amchi) == {i \in 1..Len(table) : table[i].amchi = amchi}

StationaryIds(G) ==
    {G.nodes[i].amchi : i \in {j \in 1..Len(G.nodes) : IsStationaryRole(G.nodes[j].role)}}

TransitionIds(G) ==
    {G.nodes[i].amchi : i \in {j \in 1..Len(G.nodes) : G.nodes[j].role = "transition"}}

\* Every identifier of G is stored in exactly one row of its table.
StoredOnce(G, st, tr) ==
    /\ \A a \in StationaryIds(G) : Cardinality(RowsOf(st, a)) = 1
    /\ \A a \in TransitionIds(G) : Cardinality(RowsOf(tr, a)) = 1

\* C1: reconciliation is idempotent.  A pass given the graph of the pass just
\* before it returns no new identifier and leaves the stationary and
\* transition tables as they were, with every identifier of the graph stored
\* exactly once.
C1_Idempotent ==
    [][(ret'.op = "reconcile" /\ ret'.repeat)
         => /\ ret'.outcome = "ok"
            /\ ret'.to_submit = EmptyDict
            /\ stationary' = stationary
            /\ transition' = transition
            /\ durable'.stationary = stationary /\ durable'.transition = transition
            /\ StoredOnce(ret'.graph, stationary', transition')]_vars

\* C1 witness: a graph with stationary and transition nodes was reconciled
\* twice in a row.
C1_Witness ==
    /\ ret.op = "reconcile" /\ ret.repeat
    /\ StationaryIds(ret.graph) # {} /\ TransitionIds(ret.graph) # {}

NoDuplicateIdentifier(table) ==
    \A i, j \in 1..Len(table) : table[i].amchi = table[j].amchi => i = j

\* C2: after any sequence of reconciliation passes, no two rows of the
\* stationary table and no two rows of the transition table share an
\* identifier, in the connection's view and in what is committed.
C2_UniqueIdentifiers ==
    /\ NoDuplicateIdentifier(stationary)
    /\ NoDuplicateIdentifier(transition)
    /\ NoDuplicateIdentifier(durable.stationary)
    /\ NoDuplicateIdentifier(durable.transition)

\* C2 witness: passes over overlapping graphs have filled both tables, the
\* last one finding some of its identifiers stored and some not.
C2_Witness ==
    /\ Len(stationary) = 3 /\ Len(transition) >= 3
    /\ ret.op = "reconcile" /\ ret.to_submit # EmptyDict
    /\ DOMAIN ret.to_submit # StationaryIds(ret.graph) \cup TransitionIds(ret.graph)

\* The identifiers of G that have no row in their table.
AbsentIds(G, st, tr) ==
    {a \in StationaryIds(G) : RowsOf(st, a) = {}}
    \cup {a \in TransitionIds(G) : RowsOf(tr, a) = {}}

\* The rows a pass appended to a table.
Appended(before, after) ==
    IF Len(after) >= Len(before) /\ SubSeq(after, 1, Len(before)) = before
    THEN SubSeq(after, Len(before) + 1, Len(after))
    ELSE <<[amchi |-> "rows were changed or removed"]>>

\* C4: a pass returns exactly the identifiers of the graph's stationary and
\* transition nodes that were absent from the store when it started; each of
\* them is inserted once, and nothing else is inserted.
C4_ReturnsExactlyNew ==
    [][ret'.op = "reconcile"
         => LET G   == ret'.graph
                new == AbsentIds(G, stationary, transition)
                st  == Appended(stationary, stationary')
                tr  == Appended(transition, transition')
            IN  /\ ret'.outcome = "ok"
                /\ DOMAIN ret'.to_submit = new
                /\ \A a \in new :
                     ret'.to_submit[a] = IF a \in StationaryIds(G)
                                         THEN "stationary" ELSE "transition"
                /\ {st[i].amchi : i \in 1..Len(st)} = new \cap StationaryIds(G)
                /\ {tr[i].amchi : i \in 1..Len(tr)} = new \cap TransitionIds(G)
                /\ Len(st) + Len(tr) = Cardinality(new)]_vars

\* C4 witness: a pass found part of its graph stored and reported the rest.
C4_Witness ==
    /\ ret.op = "reconcile" /\ ret.outcome = "ok"
    /\ ret.to_submit # EmptyDict
    /\ \E a \in StationaryIds(ret.graph) \cup TransitionIds(ret.graph) :
           a \notin DOMAIN ret.to_submit

\* C3: when two runs reconcile graphs that share an identifier against the
\* same store, then under every interleaving of their lookups, inserts and
\* commits the shared identifier ends up stored in exactly one row.
C3_SharedIdentifierStoredOnce ==
    (\A r \in Runs : runs[r].pc = "done")
        => /\ \A a \in StationaryIds(runs["A"].graph) \cap StationaryIds(runs["B"].graph) :
                Cardinality(RowsOf(durable.stationary, a)) = 1
           /\ \A a \in TransitionIds(runs["A"].graph) \cap TransitionIds(runs["B"].graph) :
                Cardinality(RowsOf(durable.transition, a)) = 1

(***************************************************************************)
(* Properties of the Result Harvester.                                     *)
(***************************************************************************)
Records == {stationary[i].amchi : i \in 1..Len(stationary)}
           \cup {transition[i].amchi : i \in 1..Len(transition)}

EnergyFields == {"single_point", "zero_point", "total_energy",
                 "imaginary_frequency"}

\* C7: a harvest pass over a store whose records have no log files completes
\* without error, leaves every energy field unset and creates no energies
\* row with a total energy.
C7_MissingLogsNonFatal ==
    (/\ ret.op = "harvest"
     /\ Records # {}
     /\ \A a \in Records : LogDir(logs, a) = [calc |-> NoFile, freq |-> NoFile])
        => /\ ret.outcome = "ok"
           /\ \A i \in 1..Len(energies), f \in EnergyFields : energies[i][f] = None

\* The number of lines of a file that contain a marker.
Count(file, search_string) == Len(Matches(file[1], search_string))

\* What the claim expects of a field: the value taken from the only line
\* with the marker, unset for no such line or several.
Expected(file, search_string, unit) ==
    IF Count(file, search_string) = 1
    THEN Some(Matches(file[1], search_string)[1].value * unit)
    ELSE None

\* C8: for every field the harvester extracts, a log with the marker zero
\* times or more than once yields an unset field and no crash, and a log
\* with the marker exactly once yields the value of that line.  Stated for a
\* pass over records whose log files all exist, and for the rows the pass
\* creates.
C8_AmbiguityLeavesUnset ==
    [][(/\ ret'.op = "harvest"
        /\ Records # {}
        /\ \A a \in Records : logs[a].calc # NoFile /\ logs[a].freq # NoFile)
         => /\ ret'.outcome = "ok"
            /\ \A i \in 1..Len(stationary) :
                 SelectEnergy(energies, "stationary_id", stationary[i].id) = 0
                 => LET k   == SelectEnergy(energies', "stationary_id", stationary[i].id)
                        dir == logs[stationary[i].amchi]
                    IN  /\ k # 0
                        /\ energies'[k].single_point = Expected(dir.calc, SPC, HartreeToKcal)
                        /\ energies'[k].zero_point = Expected(dir.freq, ZPE, Kcal)
            /\ \A i \in 1..Len(transition) :
                 SelectEnergy(energies, "transition_id", transition[i].id) = 0
                 => LET k   == SelectEnergy(energies', "transition_id", transition[i].id)
                        dir == logs[transition[i].amchi]
                    IN  /\ k # 0
                        /\ energies'[k].single_point = Expected(dir.calc, SPC, HartreeToKcal)
                        /\ energies'[k].zero_point = Expected(dir.freq, ZPE, Kcal)
                        /\ energies'[k].imaginary_frequency = Expected(dir.freq, IMAG, 1)]_vars

\* C9: a field of an energies row that is set is never set back to null by
\* a harvest pass, whatever happened to the log files since.
C9_FieldsNeverCleared ==
    [][ret'.op = "harvest"
         => \A i \in 1..Len(energies), f \in EnergyFields :
              energies[i][f] # None
              => /\ i <= Len(energies')
                 /\ energies'[i].id = energies[i].id
                 /\ energies'[i][f] # None]_vars

EnergyRowOk(row) ==
    /\ (row.stationary_id = None) # (row.transition_id = None)
    /\ (row.total_energy # None)
         <=> (row.single_point # None /\ row.zero_point # None)
    /\ row.total_energy # None
         => row.total_energy[1] = row.single_point[1] + row.zero_point[1]

\* C10: in every store state, committed or not, every energies row has
\* exactly one of stationary_id and transition_id set, and its total_energy
\* is set if and only if single_point and zero_point are both set, and is
\* then their sum.
C10_EnergyInvariant ==
    /\ \A i \in 1..Len(energies) : EnergyRowOk(energies[i])
    /\ \A i \in 1..Len(durable.energies) : EnergyRowOk(durable.energies[i])

\* C10 witness: harvesting has left a committed transition row with a total,
\* a row with a total and a row with a single-point energy and no total.
C10_Witness ==
    /\ \E i \in 1..Len(durable.energies) :
          /\ durable.energies[i].transition_id # None
          /\ durable.energies[i].total_energy # None
    /\ \E i, j \in 1..Len(energies) :
          /\ energies[i].stationary_id # None
          /\ energies[i].total_energy # None
          /\ energies[j].single_point # None
          /\ energies[j].total_energy = None

(***************************************************************************)
(* Properties of the Job Orchestrator.                                     *)
(***************************************************************************)
TaskNodes == 1..Len(hq.task_graph.pars)

\* C5 as claimed: a job goes from Pending to Submitted only when all of its
\* declared predecessor jobs have reached Completed.
C5_SubmittedAfterPredecessors ==
    [][\A t \in DOMAIN hq.status :
          (hq.status[t] = "pending" /\ hq'.status[t] = "submitted")
          => \A p \in predecessors(hq.task_graph, t) :
                 hq.status[p] = "completed"]_vars

\* C5 as amended: the jobs of a batch are submitted together, by the one
\* client.submit call after a job has been created for every node, each
\* declaring the jobs of its predecessor nodes as its dependencies, and a
\* job never starts running before all the jobs of its predecessor nodes
\* have reached Completed.
C5_RunsAfterPredecessors ==
    [][\A t \in DOMAIN hq.status :
          /\ (hq.status[t] = "pending" /\ hq'.status[t] = "submitted")
             => /\ DOMAIN hq.status = TaskNodes
                /\ \A n \in TaskNodes :
                     /\ hq.status[n] = "pending"
                     /\ hq'.status[n] = "submitted"
                     /\ {d.node : d \in hq.all_tasks[n].deps}
                          = predecessors(hq.task_graph, n)
          /\ (hq.status[t] # "running" /\ hq'.status[t] = "running")
             => \A p \in predecessors(hq.task_graph, t) :
                    hq.status[p] = "completed"]_vars

\* C5 witness: a job with a predecessor is running, and another job of the
\* batch, submitted with it, has a predecessor too and has not started.
C5_Witness ==
    /\ hq.pc = "wait_for_jobs"
    /\ \E t \in DOMAIN hq.status :
          /\ hq.status[t] = "running"
          /\ predecessors(hq.task_graph, t) # {}
    /\ \E t \in DOMAIN hq.status :
          /\ hq.status[t] = "submitted"
          /\ predecessors(hq.task_graph, t) # {}

\* The resource specification of a node.
ResourceSpec(pars) ==
    <<pars.time_limit, pars.processors, pars.max_memory, pars.lscratch_size>>

\* The nodes whose allocation was looked at so far: those with a job, and
\* the node whose request was rejected.
Allocated ==
    DOMAIN hq.all_tasks
    \cup (IF hq.raised = "CalledProcessError" THEN {hq.n} ELSE {})

\* The request carries the specification.
Requests(allocation, pars) ==
    /\ allocation[6] = pars.time_limit
    /\ allocation[7] = "--cpus=" \o ToString(pars.processors)
    /\ allocation[12] = "--mem-per-cpu=" \o ToString(pars.max_memory)
    /\ allocation[13] = "--gres=lscratch:" \o ToString(pars.lscratch_size)

\* What holds of the deduplication at every point of a run: the requests
\* issued are as many as the distinct resource specifications among the
\* nodes handled, one for each of them.
AllocationDedupInLoop ==
    hq.pc # "idle"
    => /\ Len(hq.issued) =
            Cardinality({ResourceSpec(hq.task_graph.pars[n]) : n \in Allocated})
       /\ \A n \in Allocated :
            \E i \in 1..Len(hq.issued) :
                Requests(hq.issued[i], hq.task_graph.pars[n])
       /\ hq.pc \in {"wait_for_jobs", "done"} => Allocated = TaskNodes

\* The run is over, or has handed its jobs to the scheduler, and was not
\* ended by one of the two errors that are fatal for the batch: the server
\* not responding and a rejected allocation request.
RunThrough ==
    \/ hq.pc \in {"wait_for_jobs", "done"}
    \/ hq.pc = "failed" /\ hq.raised \notin {"RuntimeError", "CalledProcessError"}

\* C6: within one run the allocation requests issued are as many as the
\* distinct resource specifications among the nodes of the task graph, and
\* every distinct specification is requested.
C6_RequestsEqualDistinctSpecs ==
    RunThrough
    => /\ Len(hq.issued) =
            Cardinality({ResourceSpec(hq.task_graph.pars[n]) : n \in TaskNodes})
       /\ \A n \in TaskNodes :
            \E i \in 1..Len(hq.issued) :
                Requests(hq.issued[i], hq.task_graph.pars[n])

\* C11: wait_for_server makes at most MaxPolls status polls and returns at
\* the first one that succeeds; when the last of them fails too it ends with
\* RuntimeError, and the run then has issued no allocation request and has
\* created and submitted no job.
C11_BoundedStartup ==
    [][/\ hq'.polls <= MaxPolls
       /\ hq.pc = "wait_for_server"
          => \/ hq'.pc = "loop" /\ hq'.raised = ""
             \/ /\ hq'.pc = "wait_for_server"
                /\ hq'.polls = hq.polls + 1
                /\ hq'.polls < MaxPolls
             \/ /\ hq'.pc = "failed"
                /\ hq'.raised = "RuntimeError"
                /\ hq.polls = MaxPolls - 1
                /\ hq'.polls = MaxPolls
       /\ hq'.raised = "RuntimeError"
          => /\ hq'.pc = "failed"
             /\ hq'.issued = <<>>
             /\ hq'.allocation_requests = {}
             /\ hq'.all_tasks = EmptyDict
             /\ hq'.status = EmptyDict]_vars

\* C11 witness: the tenth poll failed and the run ended with RuntimeError.
C11_Witness ==
    /\ hq.pc = "failed"
    /\ hq.raised = "RuntimeError"
    /\ hq.polls = MaxPolls

\* C12: when the cluster rejects an allocation request of the run, the run
\* ends with CalledProcessError at that request, and no job of the batch is
\* ever submitted to the scheduler: the jobs created for earlier nodes stay
\* pending.
C12_AllocationFailureFatal ==
    hq.pc # "idle" /\ hq.rejected
    => /\ hq.pc = "failed"
       /\ hq.raised = "CalledProcessError"
       /\ hq.n \notin DOMAIN hq.all_tasks
       /\ \A t \in DOMAIN hq.status : hq.status[t] = "pending"

\* C12 witness: the request made for the third node was rejected, after the
\* request of an earlier node had been accepted and jobs had been created.
C12_Witness ==
    /\ hq.pc = "failed"
    /\ hq.rejected
    /\ hq.n = 3
    /\ Len(hq.issued) = 2
    /\ DOMAIN hq.status = {1, 2}

(***************************************************************************)
(* Properties of the Graph Builder.                                        *)
(***************************************************************************)
\* A scan directive over the atoms x and y that starts at their measured
\* distance, with the given step and 100 steps.
ScanDirective(x, y, step) ==
    <<"s", "c", "a", "n", " ", "B", " ">> \o ActiveAtomsText(x, y)
    \o <<" ", "=", " ">> \o Fixed3(dmat_angstrom(x, y)) \o <<",", " ">> \o step
    \o <<",", " ", "1", "0", "0">>

FormedStep == <<"0", ".", "7">>

BrokenStep == <<"2", ".", "0">>

IsInfix(d, text) ==
    \E i \in 0..(Len(text) - Len(d)) : SubSeq(text, i + 1, i + Len(d)) = d

\* The scan text holds a directive over the bond of x and y.
HoldsDirective(text, x, y, step) ==
    \/ IsInfix(ScanDirective(x, y, step), text)
    \/ IsInfix(ScanDirective(y, x, step), text)

\* The forming bonds that share exactly one atom with a breaking bond.
Qualifying(broken_bond, formed) ==
    {f \in Range(formed) : Cardinality(Range(broken_bond) \cap Range(f)) = 1}

\* C13: a transition with one breaking bond (a,b) and no forming bond gets
\* the directive over (a,b) with step 2.0; one with a breaking bond (a,b) and
\* a forming bond (b,c) that share the atom b gets the directive over (b,c)
\* with step 0.7; each over 100 steps from the measured distance.
C13_ScanDirectiveSelection ==
    (built.pc = "returned" /\ Len(built.graph.broken) = 1)
    => LET bb == built.graph.broken[1]
           fs == built.graph.formed
       IN  /\ fs = <<>>
              => /\ built.result.raised = ""
                 /\ HoldsDirective(built.result.scan, bb[1], bb[2], BrokenStep)
           /\ (Len(fs) = 1 /\ Qualifying(bb, fs) # {})
              => LET b == CHOOSE x \in Range(bb) \cap Range(fs[1]) : TRUE
                     c == CHOOSE x \in Range(fs[1]) \ Range(bb) : TRUE
                 IN  /\ built.result.raised = ""
                     /\ HoldsDirective(built.result.scan, b, c, FormedStep)

\* C18: the scan text of a transition holds, for every breaking bond, one
\* directive per forming bond that shares exactly one atom with it, and the
\* directive over the breaking bond itself, with step 2.0, when no forming
\* bond does.
C18_ScanDirectivesComplete ==
    (built.pc = "returned" /\ built.graph.broken # <<>>)
    => /\ built.result.raised = ""
       /\ \A bb \in Range(built.graph.broken) :
            LET Q == Qualifying(bb, built.graph.formed)
            IN  IF Q = {}
                THEN HoldsDirective(built.result.scan, bb[1], bb[2], BrokenStep)
                ELSE \A f \in Q :
                       HoldsDirective(built.result.scan, f[1], f[2], FormedStep)

\* The identifiers of a list of molecules.
AmchisOf(molecules) ==
    [i \in 1..Len(molecules) |-> canonical_enantiomer(molecules[i])]

NodesOfRole(G, roles) == {i \in 1..Len(G.nodes) : G.nodes[i].role \in roles}

InEdges(G, n) == {e \in G.edges : e[2] = n}

OutEdges(G, n) == {e \in G.edges : e[1] = n}

\* The call has one reactant and one product set of two products, the three
\* species differ and the collaborator finds one transition structure.
OneToTwo ==
    /\ built.pc = "built"
    /\ Len(built.reactants) = 1
    /\ Len(built.product_sets) = 1
    /\ Len(built.product_sets[1]) = 2
    /\ Cardinality(Range(AmchisOf(built.reactants))
                   \cup Range(AmchisOf(built.product_sets[1]))) = 3
    /\ Len(reaction_graphs(AmchisOf(built.reactants),
                           AmchisOf(built.product_sets[1]))) = 1
    /\ ret.outcome = "ok"

\* Every transition structure found for a candidate set is a transition node
\* with an edge from every reactant identifier and an edge to every product
\* identifier of that set.
TransitionsLinked ==
    LET G == ret.graph
        reactant_amchis == AmchisOf(built.reactants)
    IN  \A k \in 1..Len(built.product_sets) :
          LET product_amchis == AmchisOf(built.product_sets[k])
              found == reaction_graphs(reactant_amchis, product_amchis)
          IN  \A j \in 1..Len(found) :
                /\ \E i \in NodesOfRole(G, {"transition"}) :
                      G.nodes[i].amchi = found[j]
                /\ \A r \in Range(reactant_amchis) : <<r, found[j]>> \in G.edges
                /\ \A q \in Range(product_amchis) : <<found[j], q>> \in G.edges

\* C14 as claimed: one reactant and one product set of two products give 3
\* stationary nodes and 1 transition node with 2 in-edges and 2 out-edges;
\* in general each transition node has an in-edge from every reactant and an
\* out-edge to every product of its candidate set.
C14_GraphShape ==
    (built.pc = "built" /\ ret.outcome = "ok")
    => /\ TransitionsLinked
       /\ OneToTwo
          => LET G  == ret.graph
                 ts == reaction_graphs(AmchisOf(built.reactants),
                                       AmchisOf(built.product_sets[1]))[1]
             IN  /\ Cardinality(NodesOfRole(G, {"reactant", "product"})) = 3
                 /\ Cardinality(NodesOfRole(G, {"transition"})) = 1
                 /\ Cardinality(InEdges(G, ts)) = 2
                 /\ Cardinality(OutEdges(G, ts)) = 2

\* C14 as amended: one reactant and one product set of two products, of
\* three different species with one transition structure, give 3 stationary
\* nodes and 1 transition node with 1 in-edge, from the reactant, and 2
\* out-edges, to the products, 3 edges in all; in general each transition
\* node has an in-edge from every reactant and an out-edge to every product
\* of its candidate set.
C14_GraphShapeAmended ==
    (built.pc = "built" /\ ret.outcome = "ok")
    => /\ TransitionsLinked
       /\ OneToTwo
          => LET G  == ret.graph
                 ts == reaction_graphs(AmchisOf(built.reactants),
                                       AmchisOf(built.product_sets[1]))[1]
             IN  /\ Cardinality(NodesOfRole(G, {"reactant", "product"})) = 3
                 /\ Cardinality(NodesOfRole(G, {"transition"})) = 1
                 /\ Cardinality(InEdges(G, ts)) = 1
                 /\ Cardinality(OutEdges(G, ts)) = 2
                 /\ Cardinality(G.edges) = 3

\* C14 witness: the graph of one reactant and two products was built.
C14_Witness ==
    /\ OneToTwo
    /\ Cardinality(ret.graph.edges) = 3

(***************************************************************************)
(* Properties of the Store Reconciler under failures.                      *)
(***************************************************************************)
NeighborKeys == {"reactant_1", "reactant_2", "product_1", "product_2"}

\* Every neighbour key that is set is the id of a stationary row.
KeysResolve(st, tr) ==
    \A i \in 1..Len(tr), f \in NeighborKeys :
        tr[i][f] # None => \E j \in 1..Len(st) : st[j].id = tr[i][f][1]

\* The key is the id of a stationary row of the k-th neighbour identifier, or
\* is null when the transition has fewer than k such neighbours.
KeyIsNeighbor(st, key, amchis, k) ==
    IF Len(amchis) >= k
    THEN /\ key # None
         /\ \E j \in 1..Len(st) : st[j].id = key[1] /\ st[j].amchi = amchis[k]
    ELSE key = None

NodeOf(G, amchi) == G.nodes[CHOOSE i \in 1..Len(G.nodes) : G.nodes[i].amchi = amchi]

\* C15: a pass has every stationary node of its graph stored before it
\* inserts a transition row; in every store state, in the connection and
\* committed, each neighbour key of a transition row that is set is the id of
\* a stationary row, and the keys of a row a pass inserts are the rows of the
\* transition's reactant and product identifiers, stored before or in the
\* same pass.
C15_ReferentialIntegrity ==
    [][/\ KeysResolve(stationary', transition')
       /\ KeysResolve(durable'.stationary, durable'.transition)
       /\ ret'.op = "reconcile"
          => LET G   == ret'.graph
                 new == Appended(transition, transition')
             IN  /\ new # <<>>
                    => \A a \in StationaryIds(G) : RowsOf(stationary', a) # {}
                 /\ \A i \in 1..Len(new) :
                      LET node == NodeOf(G, new[i].amchi)
                      IN  /\ KeyIsNeighbor(stationary', new[i].reactant_1, node.reactants, 1)
                          /\ KeyIsNeighbor(stationary', new[i].reactant_2, node.reactants, 2)
                          /\ KeyIsNeighbor(stationary', new[i].product_1, node.products, 1)
                          /\ KeyIsNeighbor(stationary', new[i].product_2, node.products, 2)]_vars

\* C15 witness: a pass inserted a transition row of two reactants that were
\* stored before and a product inserted in the same pass.
C15_Witness ==
    /\ ret.op = "reconcile" /\ ret.outcome = "ok"
    /\ \E i \in 1..Len(durable.transition) :
          LET row == durable.transition[i]
              amchi_of(key) == durable.stationary[
                  CHOOSE j \in 1..Len(durable.stationary) :
                      durable.stationary[j].id = key[1]].amchi
          IN  /\ row.amchi \in DOMAIN ret.to_submit
              /\ row.reactant_2 # None
              /\ amchi_of(row.reactant_1) \notin DOMAIN ret.to_submit
              /\ amchi_of(row.reactant_2) \notin DOMAIN ret.to_submit
              /\ amchi_of(row.product_1) \in DOMAIN ret.to_submit

\* C16: when a pass is left by a store-write error after it inserted some of
\* its nodes, a pass that is given the same graph again, on the same
\* connection or on a new one, leaves no two rows of the stationary table and
\* no two rows of the transition table with the same identifier; when it
\* completes, every identifier of the graph is stored once.
C16_RetryDoesNotDuplicate ==
    (ret.op = "reconcile" /\ ret.retry)
    => /\ NoDuplicateIdentifier(stationary)
       /\ NoDuplicateIdentifier(transition)
       /\ NoDuplicateIdentifier(durable.stationary)
       /\ NoDuplicateIdentifier(durable.transition)
       /\ ret.outcome = "ok"
          => /\ StoredOnce(ret.graph, stationary, transition)
             /\ StoredOnce(ret.graph, durable.stationary, durable.transition)

\* C16 witness: the pass after a failed one completed, found some nodes of
\* the graph stored and inserted the others.
C16_Witness ==
    /\ ret.op = "reconcile" /\ ret.retry /\ ret.outcome = "ok"
    /\ ret.to_submit # EmptyDict
    /\ \E a \in StationaryIds(ret.graph) \cup TransitionIds(ret.graph) :
          a \notin DOMAIN ret.to_submit

\* C17: for every acyclic task graph, in whatever order its nodes were
\* added, the run creates exactly one job per node, with the jobs of the
\* node's graph predecessors as its dependencies, and never fails because the
\* job of a predecessor has not been created yet.
C17_DependencyOrder ==
    hq.pc # "idle"
    => /\ hq.raised # "KeyError"
       /\ hq.pc \in {"wait_for_jobs", "done"}
          => /\ DOMAIN hq.all_tasks = TaskNodes
             /\ \A n \in TaskNodes :
                  {d.node : d \in hq.all_tasks[n].deps}
                      = predecessors(hq.task_graph, n)

\* C19: a harvest pass runs under one transaction: when it fails part-way,
\* none of the inserts and updates it made before is committed.
C19_HarvestOneTransaction ==
    [][(ret'.op = "harvest" /\ ret'.outcome # "ok")
         => durable' = durable]_vars

\* A table keeps every row it had, unchanged and in its place.
KeepsRows(before, after) ==
    /\ Len(after) >= Len(before)
    /\ SubSeq(after, 1, Len(before)) = before

\* C20: across reconciliation and harvest passes a committed stationary or
\* transition row is never deleted and never changed, a pass keeps every
\* row its connection sees, and a harvest pass leaves the stationary and
\* transition tables as they are.
C20_RecordsStable ==
    [][/\ KeepsRows(durable.stationary, durable'.stationary)
       /\ KeepsRows(durable.transition, durable'.transition)
       /\ ret'.op \in {"reconcile", "harvest"}
            => /\ KeepsRows(stationary, stationary')
               /\ KeepsRows(transition, transition')
       /\ ret'.op = "harvest"
            => /\ stationary' = stationary
               /\ transition' = transition]_vars

\* C20 witness: a reconciliation pass has added rows to a store whose
\* earlier rows have harvested energies.
C20_Witness ==
    /\ ret.op = "reconcile" /\ ret.outcome = "ok"
    /\ ret.to_submit # EmptyDict
    /\ durable.energies # <<>>
    /\ Len(durable.stationary) >= 3
    /\ durable.transition # <<>>

\* The rows of a table that are not rows of an earlier content of it.
NewRows(before, after) ==
    {after[i] : i \in 1..Len(after)} \ {before[i] : i \in 1..Len(before)}

\* The seed geometry file of a record is in its working directory.
Seeded(dataroot, row) ==
    /\ row.amchi \in DOMAIN dataroot
    /\ dataroot[row.amchi] = row.xyz \o "\n"

\* C21: every committed stationary or transition record has its working
\* directory with its seed geometry file, and has been reported as new work
\* by a pass: the pass that commits the record returns it in to_submit
\* (passes left by an error return nothing).
C21_DirectoriesTrackStore ==
    [][\A table \in {"stationary", "transition"} :
         /\ \A i \in 1..Len(durable'[table]) : Seeded(files', durable'[table][i])
         /\ \A row \in NewRows(durable[table], durable'[table]) :
               row.amchi \in DOMAIN ret'.to_submit]_vars

\* No two rows of an energies table carry the same key in a column.
OnePerKey(table, key) ==
    \A i, j \in 1..Len(table) :
        (i # j /\ table[i][key] # None) => table[i][key] # table[j][key]

\* C22: after any number of harvest passes run one after another, the
\* energies table, as the connection sees it and as committed, holds at most
\* one row for each stationary id and at most one for each transition id.
C22_OneEnergyRecord ==
    \A table \in {energies, durable.energies} :
        OnePerKey(table, "stationary_id") /\ OnePerKey(table, "transition_id")

\* C22 witness: a harvest pass has returned on a store where a stationary
\* record already had its complete energies row from an earlier pass (the
\* calc.log it was read from has been emptied since).
C22_Witness ==
    /\ ret.op = "harvest" /\ ret.outcome = "ok"
    /\ \E i \in 1..Len(stationary), k \in 1..Len(energies) :
          /\ energies[k].stationary_id = Some(stationary[i].id)
          /\ ~Incomplete(energies[k])
          /\ logs[stationary[i].amchi].calc = File(<<>>)

\* C23: whenever log_energies returns normally, every energies row it
\* inserted or updated is committed: the committed energies table is the
\* one the connection sees.
C23_HarvestDurableOnReturn ==
    [][(ret'.op = "harvest" /\ ret'.outcome = "ok")
         => durable'.energies = energies']_vars

\* C24: the scan text a reconciliation pass stores in a new transition row
\* is the scan directive text of the node of that identifier in the graph
\* the builder produced, unchanged.
C24_ScanSurvivesHandOff ==
    [][ret'.op = "reconcile"
         => \A row \in NewRows(transition, transition') :
              \A k \in 1..Len(ret'.graph.nodes) :
                  ret'.graph.nodes[k].amchi = row.amchi
                      => row.scan = ret'.graph.nodes[k].scan[1]]_vars

====
